---- MODULE Spec2Model ----
(***************************************************************************)
(* Model of scripts/log_dashboard.py: the repository registry              *)
(* (get_repo_info), the log store scanner (get_log_files), the log record  *)
(* parser (parse_log_file) and the three routes index, get_logs and        *)
(* get_stats, running over a filesystem that other processes (the          *)
(* automation that writes the logs, an administrator) keep changing.       *)
(***************************************************************************)
EXTENDS Integers, Sequences, FiniteSets, TLC

VARIABLES repos_file, dirs, files, response

vars == <<repos_file, dirs, files, response>>

(***************************************************************************)
(* Bounds of the model.                                                    *)
(***************************************************************************)
MaxRepos == 2
MaxFiles == 2
MaxPieces == 3

(***************************************************************************)
(* Configuration and the universe of names.                                *)
(***************************************************************************)
CONFIG ==
  [log_dir |-> "/etc/ansible/playbooks/logs",
   repos_file |-> "/etc/ansible/playbooks/repos.json",
   template_dir |-> "/etc/ansible/playbooks/templates"]

MARKER == "failed=0"

MAXYEAR == 9999

DirNames == {"a", "b"}

RequestNames == DirNames \cup {"c"}

FileNames == {"2.log", "10.log", "1.log", "9.txt"}

MTimes == {2024, MAXYEAR + 1}

Pieces == {"failed=", "0", "1"}

RECURSIVE Concats(_)
Concats(n) ==
  IF n = 0 THEN {""}
  ELSE LET shorter == Concats(n - 1)
       IN shorter \cup {s \o p : s \in shorter, p \in Pieces}

Contents == Concats(MaxPieces)

RunContents == {"ok=2 changed=1 failed=0", "ok=1 changed=0 failed=1"}

(***************************************************************************)
(* Strings: characters, their code points, comparison, substring search.   *)
(***************************************************************************)
CharAt(s, i) == SubSeq(s, i, i)

Ord(c) ==
  CASE c = "." -> 46
    [] c = "/" -> 47
    [] c = "0" -> 48
    [] c = "1" -> 49
    [] c = "2" -> 50
    [] c = "9" -> 57
    [] c = "a" -> 97
    [] c = "b" -> 98
    [] c = "c" -> 99
    [] c = "e" -> 101
    [] c = "g" -> 103
    [] c = "h" -> 104
    [] c = "i" -> 105
    [] c = "k" -> 107
    [] c = "l" -> 108
    [] c = "n" -> 110
    [] c = "o" -> 111
    [] c = "p" -> 112
    [] c = "s" -> 115
    [] c = "t" -> 116
    [] c = "x" -> 120
    [] c = "y" -> 121

Min(a, b) == IF a <= b THEN a ELSE b

\* Python's str.__lt__: by code point at the first difference, else by length.
StrLess(s, t) ==
  LET n == Min(Len(s), Len(t))
      diff == {i \in 1..n : CharAt(s, i) # CharAt(t, i)}
  IN IF diff = {} THEN Len(s) < Len(t)
     ELSE LET i == CHOOSE j \in diff : \A k \in diff : j <= k
          IN Ord(CharAt(s, i)) < Ord(CharAt(t, i))

\* Python's `needle in haystack` on str.
Contains(haystack, needle) ==
  \E i \in 1..(Len(haystack) - Len(needle) + 1) :
    SubSeq(haystack, i, i + Len(needle) - 1) = needle

EndsWith(s, suffix) ==
  /\ Len(s) >= Len(suffix)
  /\ SubSeq(s, Len(s) - Len(suffix) + 1, Len(s)) = suffix

\* os.path.join of a directory and a relative name.
join(dir, name) == dir \o "/" \o name

\* os.path.basename: what follows the last "/".
basename(path) ==
  LET slashes == {i \in 1..Len(path) : CharAt(path, i) = "/"}
  IN IF slashes = {} THEN path
     ELSE LET last == CHOOSE i \in slashes : \A k \in slashes : k <= i
          IN SubSeq(path, last + 1, Len(path))

\* os.path.dirname: what precedes the last "/".
dirname(path) ==
  LET slashes == {i \in 1..Len(path) : CharAt(path, i) = "/"}
  IN IF slashes = {} THEN ""
     ELSE LET last == CHOOSE i \in slashes : \A k \in slashes : k <= i
          IN SubSeq(path, 1, last - 1)

\* fnmatch of a directory entry against the pattern "*.log" as glob applies
\* it: the name ends in ".log", and a leading "." is never matched by "*".
MatchesLogPattern(name) ==
  /\ EndsWith(name, ".log")
  /\ CharAt(name, 1) # "."

(***************************************************************************)
(* The filesystem.  repos_file is the state of the descriptor file; dirs   *)
(* gives, for each name under the log root, whether the directory is       *)
(* absent, a listable directory, or a directory that exists but cannot be  *)
(* listed; files maps the path of every entry of those directories to its  *)
(* node.  A node is a regular file (text, whether its bytes decode, its    *)
(* permission to read, its modification time as a calendar year) or a      *)
(* subdirectory.                                                           *)
(***************************************************************************)
Ok(v) == [ok |-> TRUE, value |-> v]

Raise(exc, msg) == [ok |-> FALSE, exc |-> exc, error |-> msg]

TextFile(text) ==
  [type |-> "file", text |-> text, utf8 |-> TRUE, mode |-> "r", mtime |-> 2024]

BinaryFile ==
  [type |-> "file", text |-> "", utf8 |-> FALSE, mode |-> "r", mtime |-> 2024]

Subdirectory ==
  [type |-> "dir", text |-> "", utf8 |-> TRUE, mode |-> "r", mtime |-> 2024]

NoFiles == [p \in {} |-> TextFile("")]

Without(fs, paths) == [p \in (DOMAIN fs) \ paths |-> fs[p]]

LogPath(repo_name) == join(CONFIG.log_dir, repo_name)

Descriptors ==
  {[kind |-> k, value |-> <<>>] :
     k \in {"missing", "denied", "binary", "malformed"}}
  \cup {[kind |-> "json", value |-> v] :
          v \in UNION {[1..n -> {[name |-> d] : d \in DirNames}] : n \in 0..MaxRepos}}

\* open(path, 'r') followed by read().
read_text(fs, path) ==
  IF path \notin DOMAIN fs
  THEN Raise("FileNotFoundError",
             "[Errno 2] No such file or directory: '" \o path \o "'")
  ELSE IF fs[path].type = "dir"
  THEN Raise("IsADirectoryError", "[Errno 21] Is a directory: '" \o path \o "'")
  ELSE IF fs[path].mode # "r"
  THEN Raise("PermissionError", "[Errno 13] Permission denied: '" \o path \o "'")
  ELSE IF ~fs[path].utf8
  THEN Raise("UnicodeDecodeError",
             "'utf-8' codec can't decode byte 0xff in position 0: invalid start byte")
  ELSE Ok(fs[path].text)

\* os.path.getmtime
getmtime(fs, path) ==
  IF path \notin DOMAIN fs
  THEN Raise("FileNotFoundError",
             "[Errno 2] No such file or directory: '" \o path \o "'")
  ELSE Ok(fs[path].mtime)

\* datetime.fromtimestamp(...).strftime('%Y-%m-%d %H:%M:%S')
timestamp(mtime) ==
  IF mtime > MAXYEAR
  THEN Raise("ValueError", "year " \o ToString(mtime) \o " is out of range")
  ELSE Ok(ToString(mtime) \o "-01-01 00:00:00")

\* os.path.getsize
getsize(fs, path) ==
  IF path \notin DOMAIN fs
  THEN Raise("FileNotFoundError",
             "[Errno 2] No such file or directory: '" \o path \o "'")
  ELSE Ok(Len(fs[path].text))

\* os.path.exists of a repository's log directory.
exists(ds, repo_name) == repo_name \in DOMAIN ds /\ ds[repo_name] # "absent"

\* A scan that returns every entry of the directory, whatever its suffix.
glob_every_entry(ds, fs, repo_name) ==
  IF repo_name \in DOMAIN ds /\ ds[repo_name] = "dir"
  THEN {p \in DOMAIN fs : dirname(p) = LogPath(repo_name)}
  ELSE {}

\* glob.glob(os.path.join(log_path, '*.log')): the matching entries of the
\* directory; a directory that cannot be listed yields nothing.
glob(ds, fs, repo_name) ==
  IF repo_name \in DOMAIN ds /\ ds[repo_name] = "dir"
  THEN {p \in DOMAIN fs :
          dirname(p) = LogPath(repo_name) /\ MatchesLogPattern(basename(p))}
  ELSE {}

RECURSIVE SetToSeq(_)
SetToSeq(S) ==
  IF S = {} THEN <<>>
  ELSE LET x == CHOOSE y \in S : TRUE IN <<x>> \o SetToSeq(S \ {x})

\* A sort that forgets reverse=True.
sorted_forward(S) == SortSeq(SetToSeq(S), LAMBDA s, t : StrLess(s, t))

\* sorted(..., reverse=True) on strings.
sorted_reverse(S) == SortSeq(SetToSeq(S), LAMBDA s, t : StrLess(t, s))

(***************************************************************************)
(* The program's functions.                                                *)
(***************************************************************************)
get_repo_info(desc) ==
  CASE desc.kind = "missing" -> Ok(<<>>)
    [] desc.kind = "malformed" -> Ok(<<>>)
    [] desc.kind = "denied" ->
         Raise("PermissionError",
               "[Errno 13] Permission denied: '" \o CONFIG.repos_file \o "'")
    [] desc.kind = "binary" ->
         Raise("UnicodeDecodeError",
               "'utf-8' codec can't decode byte 0xff in position 0: invalid start byte")
    [] desc.kind = "json" -> Ok(desc.value)

get_log_files(ds, fs, repo_name) ==
  IF ~exists(ds, repo_name) THEN <<>>
  ELSE sorted_reverse(glob(ds, fs, repo_name))

\* A classification that reads the marker only at the end of the content.
status_of_last_field(content) ==
  IF EndsWith(content, MARKER) THEN "success" ELSE "failed"

status_of(content) == IF Contains(content, MARKER) THEN "success" ELSE "failed"

\* An error record that loses the description of the failure.
error_record_no_message(log_file, failure) ==
  [filename |-> basename(log_file), error |-> "", status |-> "error"]

\* An error record that also carries an (empty) content.
error_record_with_content(log_file, failure) ==
  [filename |-> basename(log_file), error |-> failure.error,
   content |-> "", status |-> "error"]

error_record(log_file, failure) ==
  [filename |-> basename(log_file), error |-> failure.error, status |-> "error"]

\* A parser that remembers a failure: a file whose record in the last
\* response was an error is reported with that record again.
parse_log_file_cached(log_file, at_read, at_stat) ==
  LET r == read_text(at_read, log_file)
      m == getmtime(at_stat, log_file)
      t == IF m.ok THEN timestamp(m.value) ELSE m
      s == getsize(at_stat, log_file)
      cached == IF response.route = "/api/logs"
                THEN {i \in 1..Len(response.body) :
                        /\ response.body[i].filename = basename(log_file)
                        /\ response.body[i].status = "error"}
                ELSE {}
  IN IF cached # {} THEN response.body[CHOOSE i \in cached : TRUE]
     ELSE IF ~r.ok THEN error_record(log_file, r)
     ELSE IF ~t.ok THEN error_record(log_file, t)
     ELSE IF ~s.ok THEN error_record(log_file, s)
     ELSE [filename |-> basename(log_file),
           timestamp |-> t.value,
           size |-> s.value,
           content |-> r.value,
           status |-> status_of(r.value)]

\* at_read is the filesystem when the file is opened and read, at_stat the
\* filesystem when its mtime and size are looked up.
parse_log_file(log_file, at_read, at_stat) ==
  LET r == read_text(at_read, log_file)
      m == getmtime(at_stat, log_file)
      t == IF m.ok THEN timestamp(m.value) ELSE m
      s == getsize(at_stat, log_file)
  IN IF ~r.ok THEN error_record(log_file, r)
     ELSE IF ~t.ok THEN error_record(log_file, t)
     ELSE IF ~s.ok THEN error_record(log_file, s)
     ELSE [filename |-> basename(log_file),
           timestamp |-> t.value,
           size |-> s.value,
           content |-> r.value,
           status |-> status_of(r.value)]

\* An inner loop that counts only the successful runs.
RECURSIVE count_runs_success_only(_, _, _)
count_runs_success_only(log_files, fs, stats) ==
  IF log_files = <<>> THEN Ok(stats)
  ELSE LET r == read_text(fs, Head(log_files))
       IN IF ~r.ok THEN r
          ELSE count_runs_success_only(Tail(log_files), fs,
                 IF Contains(r.value, MARKER)
                 THEN [stats EXCEPT !.successful_runs = @ + 1]
                 ELSE stats)

\* The inner loop of get_stats over one repository's files.
RECURSIVE count_runs(_, _, _)
count_runs(log_files, fs, stats) ==
  IF log_files = <<>> THEN Ok(stats)
  ELSE LET r == read_text(fs, Head(log_files))
       IN IF ~r.ok THEN r
          ELSE count_runs(Tail(log_files), fs,
                 IF Contains(r.value, MARKER)
                 THEN [stats EXCEPT !.successful_runs = @ + 1]
                 ELSE [stats EXCEPT !.failed_runs = @ + 1])

\* The outer loop of get_stats over the repositories; the directories are
\* listed from at_scan and the files read from at_read.
RECURSIVE count_repos(_, _, _, _, _)
count_repos(repos, ds, at_scan, at_read, stats) ==
  IF repos = <<>> THEN Ok(stats)
  ELSE LET log_files == get_log_files(ds, at_scan, Head(repos).name)
           counted == count_runs(log_files, at_read,
                        [stats EXCEPT !.total_logs = @ + Len(log_files)])
       IN IF ~counted.ok THEN counted
          ELSE count_repos(Tail(repos), ds, at_scan, at_read, counted.value)

compute_stats(desc, ds, at_scan, at_read) ==
  LET repos == get_repo_info(desc)
  IN IF ~repos.ok THEN repos
     ELSE count_repos(repos.value, ds, at_scan, at_read,
            [total_repos |-> Len(repos.value), total_logs |-> 0,
             successful_runs |-> 0, failed_runs |-> 0])

(***************************************************************************)
(* The environment: other processes change the descriptor, the log         *)
(* directories and the log files between (and during) requests.            *)
(***************************************************************************)
EntryPath(repo_name, name) == join(LogPath(repo_name), name)

Under(fs, repo_name) == {p \in DOMAIN fs : dirname(p) = LogPath(repo_name)}

WriteDescriptor(d) ==
  /\ repos_file # d
  /\ repos_file' = d
  /\ UNCHANGED <<dirs, files, response>>

MakeDir(n) ==
  /\ dirs[n] = "absent"
  /\ dirs' = [dirs EXCEPT ![n] = "dir"]
  /\ UNCHANGED <<repos_file, files, response>>

RemoveDir(n) ==
  /\ dirs[n] # "absent"
  /\ dirs' = [dirs EXCEPT ![n] = "absent"]
  /\ files' = Without(files, Under(files, n))
  /\ UNCHANGED <<repos_file, response>>

ChmodDir(n) ==
  /\ dirs[n] # "absent"
  /\ dirs' = [dirs EXCEPT ![n] = IF @ = "dir" THEN "denied" ELSE "dir"]
  /\ UNCHANGED <<repos_file, files, response>>

CanCreate(n, f) ==
  /\ dirs[n] = "dir"
  /\ EntryPath(n, f) \notin DOMAIN files
  /\ Cardinality(DOMAIN files) < MaxFiles

CanOverwrite(n, f) ==
  /\ dirs[n] = "dir"
  /\ EntryPath(n, f) \in DOMAIN files
  /\ files[EntryPath(n, f)].type = "file"
  /\ files[EntryPath(n, f)].mode = "r"

WriteLog(n, f, c) ==
  /\ CanCreate(n, f) \/ CanOverwrite(n, f)
  /\ files' = (EntryPath(n, f) :> TextFile(c)) @@ files
  /\ files' # files
  /\ UNCHANGED <<repos_file, dirs, response>>

WriteBinary(n, f) ==
  /\ CanCreate(n, f) \/ CanOverwrite(n, f)
  /\ files' = (EntryPath(n, f) :> BinaryFile) @@ files
  /\ files' # files
  /\ UNCHANGED <<repos_file, dirs, response>>

MakeSubdir(n, f) ==
  /\ CanCreate(n, f)
  /\ files' = (EntryPath(n, f) :> Subdirectory) @@ files
  /\ UNCHANGED <<repos_file, dirs, response>>

Chmod(p) ==
  /\ p \in DOMAIN files
  /\ files[p].type = "file"
  /\ files' = [files EXCEPT ![p].mode = IF @ = "r" THEN "-" ELSE "r"]
  /\ UNCHANGED <<repos_file, dirs, response>>

Touch(p, t) ==
  /\ p \in DOMAIN files
  /\ files[p].type = "file"
  /\ files[p].mtime # t
  /\ files' = [files EXCEPT ![p].mtime = t]
  /\ UNCHANGED <<repos_file, dirs, response>>

Remove(p) ==
  /\ p \in DOMAIN files
  /\ files' = Without(files, {p})
  /\ UNCHANGED <<repos_file, dirs, response>>

(***************************************************************************)
(* The routes.  A request runs while the environment may unlink one of     *)
(* the files it has listed: before the file is opened, or between the      *)
(* read of its content and the lookup of its mtime and size.               *)
(***************************************************************************)
NoRace == [kind |-> "none", path |-> ""]

Races(paths, kinds) ==
  {NoRace} \cup {[kind |-> k, path |-> p] : k \in kinds, p \in paths}

After(race) ==
  IF race.kind = "none" THEN files ELSE Without(files, {race.path})

\* Every answer is a new event: seq alternates from one answer to the next.
Served(route, arg, body) ==
  [route |-> route, arg |-> arg, code |-> 200, body |-> body, exc |-> "",
   seq |-> 1 - response.seq]

Failed(route, arg, exc) ==
  [route |-> route, arg |-> arg, code |-> 500, body |-> <<>>, exc |-> exc,
   seq |-> 1 - response.seq]

NoResponse ==
  [route |-> "", arg |-> "", code |-> 0, body |-> <<>>, exc |-> "", seq |-> 0]

index ==
  /\ LET repos == get_repo_info(repos_file)
     IN response' = IF repos.ok THEN Served("/", "", repos.value)
                    ELSE Failed("/", "", repos.exc)
  /\ UNCHANGED <<repos_file, dirs, files>>

logs_of(repo_name, race) ==
  LET log_files == get_log_files(dirs, files, repo_name)
      at_read == IF race.kind = "before_open" THEN After(race) ELSE files
  IN [i \in 1..Len(log_files) |->
        parse_log_file(log_files[i], at_read, After(race))]

get_logs(repo_name, race) ==
  /\ response' = Served("/api/logs", repo_name, logs_of(repo_name, race))
  /\ files' = After(race)
  /\ UNCHANGED <<repos_file, dirs>>

get_stats(race) ==
  /\ LET stats == compute_stats(repos_file, dirs, files, After(race))
     IN response' = IF stats.ok THEN Served("/api/stats", "", stats.value)
                    ELSE Failed("/api/stats", "", stats.exc)
  /\ files' = After(race)
  /\ UNCHANGED <<repos_file, dirs>>

Listed(repo_name) ==
  LET log_files == get_log_files(dirs, files, repo_name)
  IN {log_files[i] : i \in 1..Len(log_files)}

(***************************************************************************)
(* Spec: the registry, the directories and several run logs.               *)
(***************************************************************************)
Init ==
  /\ repos_file = [kind |-> "missing", value |-> <<>>]
  /\ dirs = [n \in DirNames |-> "absent"]
  /\ files = NoFiles
  /\ response = NoResponse

\* The response has been sent; the request is over.
respond ==
  /\ response # NoResponse
  /\ response' = NoResponse
  /\ UNCHANGED <<repos_file, dirs, files>>

\* The environment changes the filesystem between requests, or at the points
\* of a request that its race names.
Environment ==
  \/ \E d \in Descriptors : WriteDescriptor(d)
  \/ \E n \in DirNames : MakeDir(n)
  \/ \E n \in DirNames : RemoveDir(n)
  \/ \E n \in DirNames : ChmodDir(n)
  \/ \E n \in DirNames, f \in FileNames, c \in RunContents : WriteLog(n, f, c)
  \/ \E p \in DOMAIN files : Remove(p)

Requests ==
  \/ index
  \/ \E r \in RequestNames :
       \E race \in Races(Listed(r), {"before_open", "before_stat"}) :
         get_logs(r, race)
  \/ \E race \in Races(UNION {Listed(n) : n \in DirNames}, {"before_open"}) :
       get_stats(race)

Next ==
  \/ response = NoResponse /\ Environment
  \/ response = NoResponse /\ Requests
  \/ respond

Spec == Init /\ [][Next]_vars

(***************************************************************************)
(* SpecFile: one registered repository whose logs vary in content,         *)
(* encoding, permission, modification time and kind.                       *)
(***************************************************************************)
TheRepo == "a"

TheLog == "2.log"

TheLogs == {TheLog, "10.log"}

InitFile ==
  /\ repos_file = [kind |-> "json", value |-> <<[name |-> TheRepo]>>]
  /\ dirs = [n \in DirNames |-> IF n = TheRepo THEN "dir" ELSE "absent"]
  /\ files = NoFiles
  /\ response = NoResponse

FileEvents(f) ==
  \/ \E c \in RunContents : WriteLog(TheRepo, f, c)
  \/ WriteBinary(TheRepo, f)
  \/ MakeSubdir(TheRepo, f)
  \/ Chmod(EntryPath(TheRepo, f))
  \/ \E t \in MTimes : Touch(EntryPath(TheRepo, f), t)
  \/ Remove(EntryPath(TheRepo, f))

FileRequests ==
  \/ \E race \in Races(Listed(TheRepo), {"before_open", "before_stat"}) :
       get_logs(TheRepo, race)
  \/ \E race \in Races(Listed(TheRepo), {"before_open"}) : get_stats(race)

NextFile ==
  \/ response = NoResponse /\ \E f \in TheLogs : FileEvents(f)
  \/ response = NoResponse /\ FileRequests
  \/ respond

SpecFile == InitFile /\ [][NextFile]_vars

(***************************************************************************)
(* SpecRetry: one log of one repository; the last response stays on        *)
(* record while the file changes under it and is requested again.          *)
(***************************************************************************)
NextRetry ==
  \/ FileEvents(TheLog)
  \/ FileRequests

SpecRetry == InitFile /\ [][NextRetry]_vars

(***************************************************************************)
(* SpecContent: one readable log whose text ranges over Contents.          *)
(***************************************************************************)
NextContent ==
  \/ response = NoResponse /\ \E c \in Contents : WriteLog(TheRepo, TheLog, c)
  \/ response = NoResponse /\ get_logs(TheRepo, NoRace)
  \/ response = NoResponse /\ get_stats(NoRace)
  \/ respond

SpecContent == InitFile /\ [][NextContent]_vars

(***************************************************************************)
(* Vocabulary of the properties.                                           *)
(***************************************************************************)
IsLogs == response.route = "/api/logs"

IsStats == response.route = "/api/stats"

IsIndex == response.route = "/"

\* The path of the file a record of the current response was parsed from.
RecordPath(rec) == EntryPath(response.arg, rec.filename)

\* The read step of the parser cannot succeed on this path.
Unreadable(p) ==
  \/ p \notin DOMAIN files
  \/ files[p].type # "file"
  \/ files[p].mode # "r"
  \/ ~files[p].utf8
  \/ files[p].mtime > MAXYEAR

\* needle occurs in haystack: haystack is some prefix, needle, some suffix.
OccursIn(haystack, needle) ==
  \E i \in 0..Len(haystack) :
    \E j \in i..Len(haystack) :
      SubSeq(haystack, 1, i) \o needle \o SubSeq(haystack, j + 1, Len(haystack))
        = haystack

LogSuffixed(repo_name) ==
  {f \in FileNames :
     EntryPath(repo_name, f) \in DOMAIN files /\ EndsWith(f, ".log")}

Listable(repo_name) == repo_name \in DOMAIN dirs /\ dirs[repo_name] = "dir"

NoLogDirectory(repo_name) ==
  repo_name \notin DOMAIN dirs \/ dirs[repo_name] = "absent"

\* A request for logs has just been answered.
LogsAnswered == response' # response /\ response'.route = "/api/logs"

\* A request for the statistics has just been answered.
StatsAnswered == response' # response /\ response'.route = "/api/stats"

(***************************************************************************)
(* C1: get_stats completes without raising and counts every log file the   *)
(* scanner returned exactly once, a file whose read fails among the        *)
(* failed runs.                                                            *)
(***************************************************************************)
C1_StatsNeverRaises ==
  IsStats =>
    /\ response.code = 200
    /\ response.body.total_logs
         = response.body.successful_runs + response.body.failed_runs

(***************************************************************************)
(* C2: parse_log_file is total: get_logs always answers, and a file whose  *)
(* read or metadata lookup fails (missing, removed during the request,     *)
(* not permitted, not decodable, a directory, a modification time that     *)
(* cannot be formatted) yields a record with status "error" and a          *)
(* non-empty error message.                                                *)
(***************************************************************************)
C2_ParseTotal ==
  IsLogs =>
    /\ response.code = 200
    /\ \A i \in 1..Len(response.body) :
         LET rec == response.body[i]
         IN Unreadable(RecordPath(rec)) =>
              /\ rec.status = "error"
              /\ "error" \in DOMAIN rec
              /\ Len(rec.error) > 0

C2_Witness ==
  /\ IsLogs
  /\ \E i \in 1..Len(response.body) :
       /\ response.body[i].status = "error"
       /\ RecordPath(response.body[i]) \notin DOMAIN files

(***************************************************************************)
(* C3: for a log that was read, the status is "success" exactly when the   *)
(* marker failed=0 occurs somewhere in the content, and "failed"           *)
(* otherwise.                                                              *)
(***************************************************************************)
C3_StatusIsMarkerOccurrence ==
  IsLogs =>
    \A i \in 1..Len(response.body) :
      LET rec == response.body[i]
      IN ~Unreadable(RecordPath(rec)) =>
           rec.status = IF OccursIn(files[RecordPath(rec)].text, MARKER)
                        THEN "success" ELSE "failed"

C3_Witness ==
  /\ IsLogs
  /\ Len(response.body) = 1
  /\ response.body[1].status = "success"
  /\ response.body[1].content = "failed=01"

(***************************************************************************)
(* C4: every Stats value that get_stats returns has total_logs =           *)
(* successful_runs + failed_runs, no negative counter, and total_repos     *)
(* equal to the number of repositories of the registry.                    *)
(***************************************************************************)
C4_StatsAddUp ==
  (IsStats /\ response.code = 200) =>
    LET stats == response.body
    IN /\ stats.total_logs = stats.successful_runs + stats.failed_runs
       /\ stats.total_repos >= 0
       /\ stats.total_logs >= 0
       /\ stats.successful_runs >= 0
       /\ stats.failed_runs >= 0
       /\ stats.total_repos =
            (IF repos_file.kind = "json" THEN Len(repos_file.value) ELSE 0)

C4_Witness ==
  /\ IsStats
  /\ response.code = 200
  /\ response.body.total_repos = 2
  /\ response.body.total_logs = 2
  /\ response.body.successful_runs = 1
  /\ response.body.failed_runs = 1

(***************************************************************************)
(* C5: get_repo_info never fails: with a descriptor that is missing,       *)
(* unreadable or malformed, GET / is answered with no repositories.        *)
(***************************************************************************)
C5_RegistryNeverFails ==
  IsIndex =>
    /\ response.code = 200
    /\ repos_file.kind # "json" => response.body = <<>>

(***************************************************************************)
(* C6: get_logs answers with the empty list, never an error, for a name    *)
(* whose log directory does not exist and for one whose directory holds    *)
(* no *.log file.                                                          *)
(***************************************************************************)
C6_EmptyForAbsentOrEmpty ==
  [][LogsAnswered =>
       /\ response'.code = 200
       /\ (NoLogDirectory(response'.arg) \/ LogSuffixed(response'.arg) = {})
            => response'.body = <<>>]_vars

C6_Witness ==
  /\ IsLogs
  /\ response.arg = "a"
  /\ dirs["a"] = "dir"
  /\ EntryPath("a", "9.txt") \in DOMAIN files
  /\ response.body = <<>>

C8_ContentXorError ==
  IsLogs =>
    \A i \in 1..Len(response.body) :
      LET rec == response.body[i]
          fields == DOMAIN rec
      IN /\ rec.status \in {"success", "failed", "error"}
         /\ ("error" \in fields) # ("content" \in fields)
         /\ rec.status = "error" <=> "error" \in fields
         /\ rec.status \in {"success", "failed"}
              <=> {"content", "timestamp", "size"} \subseteq fields

C8_Witness ==
  /\ IsLogs
  /\ Len(response.body) = 2
  /\ response.body[1].status = "error"
  /\ response.body[2].status \in {"success", "failed"}

RegisteredNames ==
  IF repos_file.kind = "json"
  THEN {repos_file.value[i].name : i \in 1..Len(repos_file.value)}
  ELSE {}

DistinctNames ==
  /\ repos_file.kind = "json"
  /\ Cardinality(RegisteredNames) = Len(repos_file.value)

RecordsWith(repo_name, statuses) ==
  LET logs == logs_of(repo_name, NoRace)
  IN Cardinality({i \in 1..Len(logs) : logs[i].status \in statuses})

RECURSIVE SumRecords(_, _)
SumRecords(names, statuses) ==
  IF names = {} THEN 0
  ELSE LET n == CHOOSE x \in names : TRUE
       IN RecordsWith(n, statuses) + SumRecords(names \ {n}, statuses)

C10_ViewsAgree ==
  [][(StatsAnswered /\ files' = files /\ DistinctNames) =>
       /\ response'.code = 200
       /\ response'.body.successful_runs = SumRecords(RegisteredNames, {"success"})
       /\ response'.body.failed_runs
            = SumRecords(RegisteredNames, {"failed", "error"})
       /\ response'.body.total_logs
            = SumRecords(RegisteredNames, {"success", "failed", "error"})]_vars

====
